---- MODULE Spec2Model ----
(***************************************************************************)
(* A model of runn's runbook core (src/include.go): the runbook model and  *)
(* its compile step (toBook/normalize), step synthesis (AppendStep and the *)
(* runner-key allocator setRunner), nested execution (includeRunner.Run)   *)
(* and the source-position mapper (detectRunbookAreas/pickStepYAML).       *)
(*                                                                         *)
(* Go strings are TLA+ strings; fmt.Sprintf("%s%d") is \o with ToString.   *)
(* A Go value of type any is a record carrying its dynamic type in `tag`.  *)
(***************************************************************************)
EXTENDS Integers, Sequences, FiniteSets, TLC

VARIABLES
    rb,       \* the runbook: [useMap, stepKeys, Steps, Runners]
    bk,       \* the book returned by the last toBook call, or None
    origin,   \* how rb was created: "new" (NewRunbook) or "parsed" (parseRunbook)
    calls,    \* the arguments of the AppendStep calls made so far, in order
    last,     \* the last setRunner call: [called, dsn, before, key]
    err       \* what the last AppendStep / toBook returned

rbVars == <<rb, bk, origin, calls, last, err>>

VARIABLES
    o,        \* the including operator: [root, store, httpRunners, dbRunners]
    oo,       \* the nested operator of the include in progress, or None
    operator, \* operator[r]: the operator runner instance r points to
    pc,       \* where includeRunner.Run is
    c,        \* the includeConfig of the call: [path, vars]
    pre,      \* o and operator as they were when Run was entered
    ret,      \* what Run returned
    runs      \* how many include steps have been run

incVars == <<o, oo, operator, pc, c, pre, ret, runs>>

VARIABLES
    nv,       \* the value handed to normalize
    nres      \* what normalize returned, or None before the call

normVars == <<nv, nres>>

VARIABLES
    text,     \* the document handed to pickStepYAML, as lexed and parsed
    idx,      \* the step index handed to pickStepYAML
    apc,      \* where detectRunbookAreas / pickStepYAML is
    a,        \* the areas being built: [Desc, Runners, Vars, Steps]
    sec,      \* the section of the loop over m.Values
    el,       \* the element of the loop over steps.Values
    aa,       \* the area of the element being widened
    t,        \* the token of the backward scan, 0 for nil
    picked    \* what pickStepYAML returned

areaVars == <<text, idx, apc, a, sec, el, aa, t, picked>>

vars == <<rbVars, incVars, normVars, areaVars>>

None == [tag |-> "none"]

\* The areas of a document before any is detected: a := &areas{}
NoAreas == [Desc |-> None, Runners |-> None, Vars |-> None, Steps |-> <<>>]

----------------------------------------------------------------------------
(* Dynamic values (Go `any`).                                               *)

Str(s) == [tag |-> "string", s |-> s]

IntVal(type, n) == [tag |-> type, n |-> n]

Nil == [tag |-> "nil"]

\* []any
Slice(elems) == [tag |-> "[]any", elems |-> elems]

\* map[string]any: a function from strings
MapString(m) == [tag |-> "map[string]any", m |-> m]

\* a nil map[string]any: ranges like the empty map, panics on assignment
NilMapString == [tag |-> "map[string]any", m |-> <<>>, isNil |-> TRUE]

IsNilMap(v) == "isNil" \in DOMAIN v

\* map[any]any: a function from key values
MapAny(m) == [tag |-> "map[any]any", m |-> m]

\* []map[string]any
SliceMap(elems) == [tag |-> "[]map[string]any", elems |-> elems]

\* yaml.MapSlice: a sequence of yaml.MapItem [Key, Value]
MapSlice(items) == [tag |-> "yaml.MapSlice", items |-> items]

ErrorValue(msg) == [tag |-> "error", msg |-> msg]

IsIntTag(ty) == ty \in {"int", "int8", "int16", "int32", "int64",
                      "uint", "uint8", "uint16", "uint32", "uint64"}

\* fmt.Sprintf("%v", k) for the key kinds the model uses: strings and integers
Sprintv(k) == IF k.tag = "string" THEN k.s ELSE ToString(k.n)

HasPrefix(s, prefix) ==
    Len(s) >= Len(prefix) /\ SubSeq(s, 1, Len(prefix)) = prefix

----------------------------------------------------------------------------
(* normalize: the value normalizer.                                         *)

RECURSIVE normalize(_)

\* The last item of a yaml.MapSlice whose stringified key is s: the loop
\* assigns res[key] item by item, so a later item overwrites an earlier one.
LastItem(items, s) ==
    LET hits == {i \in 1..Len(items) : Sprintv(items[i].Key) = s}
    IN  items[CHOOSE i \in hits : \A j \in hits : j <= i]

normalizeInt(v) ==
    IF v.n < 0 THEN IntVal("int64", v.n) ELSE IntVal("uint64", v.n)

normalizeSliceMap(v) ==
    LET res == [i \in 1..Len(v.elems) |-> normalize(v.elems[i])]
        bad == {i \in 1..Len(v.elems) : res[i].tag # "map[string]any"}
    IN  IF bad # {} THEN ErrorValue("failed to normalize")
        ELSE SliceMap(res)

normalize(v) ==
    CASE v.tag = "[]any" ->
            Slice([i \in 1..Len(v.elems) |-> normalize(v.elems[i])])
      [] v.tag = "map[any]any" ->
            LET keys == {Sprintv(k) : k \in DOMAIN v.m}
            IN  MapString([s \in keys |->
                    normalize(v.m[CHOOSE k \in DOMAIN v.m : Sprintv(k) = s])])
      [] v.tag = "map[string]any" ->
            MapString([k \in DOMAIN v.m |-> normalize(v.m[k])])
      [] v.tag = "[]map[string]any" -> normalizeSliceMap(v)
      [] v.tag = "yaml.MapSlice" ->
            LET keys == {Sprintv(v.items[i].Key) : i \in 1..Len(v.items)}
            IN  MapString([s \in keys |-> normalize(LastItem(v.items, s).Value)])
      [] v.tag = "int" -> normalizeInt(v)
      [] OTHER -> v

----------------------------------------------------------------------------
(* String helpers (package strings).                                        *)

\* strings.Index(s, sub) + 1, 0 when sub does not occur in s
IndexOf(s, sub) ==
    LET at == {i \in 1..(Len(s) - Len(sub) + 1) : SubSeq(s, i, i + Len(sub) - 1) = sub}
    IN  IF at = {} THEN 0 ELSE CHOOSE i \in at : \A j \in at : i <= j

Contains(s, sub) == IndexOf(s, sub) > 0

\* strings.Split(s, sep)[0] for a non-empty sep
SplitFirst(s, sep) ==
    IF IndexOf(s, sep) = 0 THEN s ELSE SubSeq(s, 1, IndexOf(s, sep) - 1)

\* the rest of s from position i on
From(s, i) == SubSeq(s, i, Len(s))

TrimSuffixNewline(s) ==
    IF Len(s) >= 1 /\ SubSeq(s, Len(s), Len(s)) = "\n" THEN SubSeq(s, 1, Len(s) - 1) ELSE s

RECURSIVE JoinSpace(_)
JoinSpace(ss) ==
    IF Len(ss) = 0 THEN ""
    ELSE IF Len(ss) = 1 THEN ss[1]
    ELSE ss[1] \o " " \o JoinSpace(Tail(ss))

joinCommands(in) ==
    LET quote(i) == IF Contains(i, " ") THEN "\"" \o i \o "\"" ELSE i
    IN  JoinSpace([k \in 1..Len(in) |-> quote(TrimSuffixNewline(in[k]))]) \o "\n"

----------------------------------------------------------------------------
(* The runner-key allocator.                                                *)

httpRunnerKeyPrefix == "req"
grpcRunnerKeyPrefix == "greq"
dbRunnerKeyPrefix == "db"

\* The key of a new entry of a family that already has `count` entries
\* (the switch of setRunner, one arm per family).
RunnerKeyOffByOne(prefix, count) ==
    IF count > 0 THEN prefix \o ToString(count) ELSE prefix

RunnerKey(prefix, count) ==
    IF count > 0 THEN prefix \o ToString(count + 1) ELSE prefix

\* The entries setRunner's loop looks at: those whose value is a string.
StringKeys(Runners) == {k \in DOMAIN Runners.m : Runners.m[k].tag = "string"}

newRunnerKey(Runners, dsn) ==
    LET strs == StringKeys(Runners)
        hc == Cardinality({k \in strs : HasPrefix(Runners.m[k].s, "http")})
        gc == Cardinality({k \in strs : ~HasPrefix(Runners.m[k].s, "http")
                                         /\ HasPrefix(Runners.m[k].s, "grpc")})
        dc == Cardinality(strs) - hc - gc
    IN  CASE HasPrefix(dsn, "http") -> RunnerKey(httpRunnerKeyPrefix, hc)
          [] HasPrefix(dsn, "grpc") -> RunnerKey(grpcRunnerKeyPrefix, gc)
          [] OTHER -> RunnerKey(dbRunnerKeyPrefix, dc)

\* The insertion rb.Runners[key] = dsn; on a nil map it panics.
insertRunner(Runners, dsn) ==
    LET key == newRunnerKey(Runners, dsn)
    IN  IF IsNilMap(Runners)
        THEN {[key |-> key, Runners |-> Runners, panic |-> TRUE]}
        ELSE {[key |-> key, panic |-> FALSE,
               Runners |-> MapString([k \in DOMAIN Runners.m \cup {key} |->
                              IF k = key THEN Str(dsn) ELSE Runners.m[k]])]}

\* setRunner without the early return for a destination already present
setRunnerNoReuse(Runners, dsn) == insertRunner(Runners, dsn)

\* setRunner's outcomes [key, Runners, panic]. Go ranges over a map in an
\* unspecified order, so with several entries holding dsn any of their keys
\* may be the one returned.
setRunner(Runners, dsn) ==
    LET hits == {k \in StringKeys(Runners) : Runners.m[k].s = dsn}
    IN  IF hits # {}
        THEN {[key |-> k, Runners |-> Runners, panic |-> FALSE] : k \in hits}
        ELSE insertRunner(Runners, dsn)

NoCall == [called |-> FALSE]

\* A setRunner call on runbook r: its outcomes, with the record of the call.
SetRunnerCall(r, dsn) ==
    {[rb |-> [r EXCEPT !.Runners = out.Runners], key |-> out.key, panic |-> out.panic,
      last |-> [called |-> TRUE, dsn |-> dsn, before |-> r.Runners, key |-> out.key,
                panic |-> out.panic]]
        : out \in setRunner(r.Runners, dsn)}

----------------------------------------------------------------------------
(* The step synthesizer.                                                    *)

\* curlreq.NewRequest for the commands the model uses, `curl [<url>]`: the
\* last argument is the URL scheme://host/path; a command without one fails.
curlreqNewRequest(in) ==
    LET url == in[Len(in)]
        sep == IndexOf(url, "://")
        rest == From(url, sep + 3)
        slash == IndexOf(rest, "/")
    IN  IF Len(in) < 2 \/ sep = 0 THEN [ok |-> FALSE]
        ELSE [ok |-> TRUE, Method |-> "GET", URL |-> url,
              Host |-> IF slash = 0 THEN rest ELSE SubSeq(rest, 1, slash - 1),
              Path |-> IF slash = 0 THEN "/" ELSE From(rest, slash)]

\* grpcurlreq.Parse for the commands the model uses, `grpcurl [<addr> [<verb>]]`
\* where verb is a method or one of the sub-commands list and describe.
grpcurlreqParse(in) ==
    LET verb == IF Len(in) >= 3 THEN in[3] ELSE ""
        sub == verb \in {"list", "describe"}
    IN  [Addr |-> IF Len(in) >= 2 THEN in[2] ELSE "",
         Method |-> IF sub THEN "" ELSE verb,
         SubCmd |-> IF sub THEN verb ELSE ""]

\* The access-log lines axslogparser.GuessParser recognizes, among the
\* model's inputs, with the fields it reads from them.
GoodLogLine == "127.0.0.1 - - [03/Nov/2026:10:00:00 +0000] \"GET /users HTTP/1.1\" 200 12"
BadMethodLogLine == "127.0.0.1 - - [03/Nov/2026:10:00:00 +0000] \"G@T /users HTTP/1.1\" 200 12"

GuessParser(line) ==
    CASE line = GoodLogLine -> [ok |-> TRUE, Method |-> "GET", RequestURI |-> "/users"]
      [] line = BadMethodLogLine -> [ok |-> TRUE, Method |-> "G@T", RequestURI |-> "/users"]
      [] OTHER -> [ok |-> FALSE]

\* http.NewRequest rejects a method that is not a token.
ValidMethod(m) == ~Contains(m, "@") /\ ~Contains(m, " ") /\ Len(m) > 0

\* The step {<key>: {<path>: {<method>: nil}}} of an HTTP request.
CreateHTTPStepMapSlice(key, path, method) ==
    MapSlice(<<[Key |-> Str(key), Value |->
        MapSlice(<<[Key |-> Str(path), Value |->
            MapSlice(<<[Key |-> Str(method), Value |-> Nil]>>)]>>)]>>)

appendToSteps(r, step) == [r EXCEPT !.Steps = Append(@, step)]

\* Outcomes [rb, err, last] of each conversion on runbook r.
curlDSN(req) == SplitFirst(req.URL, req.Host) \o req.Host

curlToStep(r, in) ==
    LET req == curlreqNewRequest(in)
    IN  IF ~req.ok THEN {[rb |-> r, err |-> "curl: parse error", last |-> NoCall]}
        ELSE LET dsn == curlDSN(req)
             IN  {IF call.panic THEN [rb |-> call.rb, err |-> "panic", last |-> call.last]
                  ELSE [rb |-> appendToSteps(call.rb,
                                  CreateHTTPStepMapSlice(call.key, req.Path, req.Method)),
                        err |-> "nil", last |-> call.last]
                    : call \in SetRunnerCall(r, dsn)}

grpcurlToStep(r, in) ==
    LET p == grpcurlreqParse(in)
    IN  IF p.Addr = "" \/ p.Method = "" \/ p.SubCmd # ""
        THEN {[rb |-> r, err |-> "unsupported grpcurl command", last |-> NoCall]}
        ELSE {IF call.panic THEN [rb |-> call.rb, err |-> "panic", last |-> call.last]
              ELSE [rb |-> appendToSteps(call.rb,
                              MapSlice(<<[Key |-> Str(call.key), Value |->
                                  MapSlice(<<[Key |-> Str(p.Method), Value |-> Nil]>>)]>>)),
                    err |-> "nil", last |-> call.last]
                : call \in SetRunnerCall(r, "grpc://" \o p.Addr)}

dummyDSN == "https://dummy.example.com"

axsLogToStep(r, in) ==
    LET l == GuessParser(JoinSpace(in))
    IN  IF ~l.ok THEN {[rb |-> r, err |-> "axslog: no parser", last |-> NoCall]}
        ELSE {IF call.panic THEN [rb |-> call.rb, err |-> "panic", last |-> call.last]
              ELSE IF ~ValidMethod(l.Method)
                   THEN [rb |-> call.rb, err |-> "net/http: invalid method", last |-> call.last]
              ELSE [rb |-> appendToSteps(call.rb,
                              CreateHTTPStepMapSlice(call.key, l.RequestURI, l.Method)),
                    err |-> "nil", last |-> call.last]
                : call \in SetRunnerCall(r, dummyDSN)}

execRunnerKey == "exec"

cmdToStep(r, in) ==
    appendToSteps(r, MapSlice(<<[Key |-> Str(execRunnerKey), Value |->
        MapSlice(<<[Key |-> Str("command"), Value |-> Str(joinCommands(in))]>>)]>>))

\* The key AppendStep synthesizes in keyed mode.
appendStepKey(r, in) ==
    IF r.useMap
    THEN [r EXCEPT !.stepKeys = Append(@, in[1] \o ToString(Len(r.stepKeys)))]
    ELSE r

\* The default arm: one argument is tried as an access-log line first, and
\* anything else, or a line that failed, becomes a shell command.
defaultToStep(r, in) ==
    LET tried == IF Len(in) = 1 THEN axsLogToStep(r, in)
                 ELSE {[rb |-> r, err |-> "skipped", last |-> NoCall]}
    IN  {IF out.err = "nil" \/ out.err = "panic" THEN out
         ELSE [rb |-> cmdToStep(out.rb, in), err |-> "nil", last |-> out.last]
           : out \in tried}

appendStep(r, in) ==
    IF Len(in) = 0 THEN {[rb |-> r, err |-> "no argument", last |-> NoCall]}
    ELSE LET keyed == appendStepKey(r, in)
         IN  CASE HasPrefix(in[1], "curl") -> curlToStep(keyed, in)
               [] HasPrefix(in[1], "grpcurl") -> grpcurlToStep(keyed, in)
               [] OTHER -> defaultToStep(keyed, in)

----------------------------------------------------------------------------
(* Creating and parsing runbooks.                                           *)

NewRunbook ==
    [useMap |-> FALSE, stepKeys |-> <<>>, Steps |-> <<>>, Runners |-> MapString(<<>>)]

\* The loop of parseRunbookMapped over the items of the steps mapping from
\* item i on: [ok, rb].
RECURSIVE mappedSteps(_, _, _, _)
mappedSteps(items, i, r, keys) ==
    IF i > Len(items) THEN [ok |-> TRUE, rb |-> r]
    ELSE LET s == items[i]
         IN  IF s.Key.tag # "string" \/ s.Value.tag # "yaml.MapSlice"
             THEN [ok |-> FALSE, rb |-> r]
             ELSE LET r2 == [r EXCEPT !.stepKeys = Append(@, s.Key.s),
                                      !.Steps = Append(@, s.Value)]
                  IN  IF s.Key.s \in keys THEN [ok |-> FALSE, rb |-> r2]
                      ELSE mappedSteps(items, i + 1, r2, keys \cup {s.Key.s})

\* A document is [runners, steps]: runners a map[string]any or absent
\* (Nil), steps [kind |-> "seq", elems] or [kind |-> "map", items].
parseRunbookMapped(doc, r) ==
    mappedSteps(doc.steps.items, 1,
                [r EXCEPT !.useMap = TRUE,
                          !.Runners = IF doc.runners = Nil THEN NilMapString
                                      ELSE doc.runners],
                {})

\* parseRunbook: [ok, rb]. Decoding into the runbook fails on a steps
\* mapping, and the document is then decoded as a keyed one.
parseRunbook(doc) ==
    IF doc.steps.kind = "seq"
    THEN [ok |-> TRUE,
          rb |-> [NewRunbook EXCEPT !.Steps = doc.steps.elems,
                                    !.Runners = IF doc.runners = Nil THEN @
                                                ELSE doc.runners]]
    ELSE parseRunbookMapped(doc, NewRunbook)

----------------------------------------------------------------------------
(* Compiling.                                                               *)

\* toBook: [ok, bk]. The model's runbooks have no loop field.
toBook(r) ==
    LET runners == normalize(r.Runners)
        steps == [i \in 1..Len(r.Steps) |-> normalize(r.Steps[i])]
    IN  IF runners.tag # "map[string]any"
           \/ \E i \in 1..Len(steps) : steps[i].tag # "map[string]any"
        THEN [ok |-> FALSE]
        ELSE [ok |-> TRUE,
              bk |-> [runners |-> runners, rawSteps |-> steps,
                      useMap |-> r.useMap, stepKeys |-> r.stepKeys]]

----------------------------------------------------------------------------
(* The runbook state machine.                                               *)

\* Bound: how many AppendStep calls a behaviour makes.
MaxCalls == 3

ExecBody == MapSlice(<<[Key |-> Str(execRunnerKey), Value |->
                MapSlice(<<[Key |-> Str("command"), Value |-> Str("true\n")]>>)]>>)

\* The runners sections of the parsed documents.
DocRunners ==
    { Nil,
      MapString("req" :> Str("http://example.com")),
      MapString("req2" :> Str("http://example.com")),
      MapString("req" :> MapString("endpoint" :> Str("http://example.com"))),
      MapString("a" :> Str("http://example.com") @@ "b" :> Str("http://example.com")),
      MapString("req" :> Str("grpc://grpc.example.com:443")) }

\* The steps sections of the parsed documents: sequences, and mappings
\* with distinct keys, a duplicate key, a non-string key, a non-mapping value.
DocSteps ==
    { [kind |-> "seq", elems |-> <<>>],
      [kind |-> "seq", elems |-> <<ExecBody>>],
      [kind |-> "map", items |-> <<>>],
      [kind |-> "map", items |-> <<[Key |-> Str("curl1"), Value |-> ExecBody]>>],
      [kind |-> "map", items |-> <<[Key |-> Str("a"), Value |-> ExecBody],
                                   [Key |-> Str("b"), Value |-> ExecBody]>>],
      [kind |-> "map", items |-> <<[Key |-> Str("a"), Value |-> ExecBody],
                                   [Key |-> Str("a"), Value |-> ExecBody]>>],
      [kind |-> "map", items |-> <<[Key |-> IntVal("int", 1), Value |-> ExecBody]>>],
      [kind |-> "map", items |-> <<[Key |-> Str("a"), Value |-> Str("true")]>>] }

Docs == [runners : DocRunners, steps : DocSteps]

\* The arguments of the AppendStep calls.
Inputs ==
    { <<>>,
      <<"curl", "http://example.com/a">>,
      <<"curl", "http://example.com/b">>,
      <<"curl", "http://other.example.org/a">>,
      <<"curl", "ftp://example.com/f">>,
      <<"curl">>,
      <<"grpcurl", "grpc.example.com:443", "svc.Users/Get">>,
      <<"grpcurl", "grpc.example.com:443", "list">>,
      <<"ls", "-l">>,
      <<GoodLogLine>>,
      <<BadMethodLogLine>> }

InitRunbook ==
    /\ \/ origin = "new" /\ rb = NewRunbook
       \/ origin = "parsed"
          /\ \E doc \in Docs : parseRunbook(doc).ok /\ rb = parseRunbook(doc).rb
    /\ bk = None
    /\ calls = <<>>
    /\ last = NoCall
    /\ err = "nil"
    \* the other components are at rest
    /\ o = None /\ oo = None /\ operator = <<>> /\ pc = "Idle"
    /\ c = None /\ pre = None /\ ret = "nil" /\ runs = 0
    /\ nv = Nil /\ nres = None
    /\ text = None /\ idx = 0 /\ apc = "idle" /\ a = NoAreas
    /\ sec = 0 /\ el = 0 /\ aa = None /\ t = 0 /\ picked = None

\* rb.AppendStep(in...)
AppendStep ==
    /\ bk = None
    /\ err # "panic"
    /\ Len(calls) < MaxCalls
    /\ \E in \in Inputs : \E out \in appendStep(rb, in) :
          /\ rb' = out.rb
          /\ err' = out.err
          /\ last' = out.last
          /\ calls' = Append(calls, in)
    /\ UNCHANGED <<bk, origin, incVars, normVars, areaVars>>

\* rb.toBook()
ToBook ==
    /\ bk = None
    /\ err # "panic"
    /\ LET res == toBook(rb)
       IN  IF res.ok THEN bk' = res.bk /\ err' = "nil"
           ELSE bk' = bk /\ err' = "failed to normalize"
    /\ UNCHANGED <<rb, origin, calls, last, incVars, normVars, areaVars>>

NextRunbook == AppendStep \/ ToBook

SpecRunbook == InitRunbook /\ [][NextRunbook]_vars

----------------------------------------------------------------------------
(* Properties of the runbook state machine.                                 *)

Distinct(seq) == \A i, j \in 1..Len(seq) : i # j => seq[i] # seq[j]

\* C1 (as claimed): in keyed mode the step keys are as many as the steps,
\* in the runbook after any AppendStep calls, failed ones included, and in
\* the book toBook returns.
C1_KeysMatchSteps ==
    /\ (rb.useMap /\ err # "panic") => Len(rb.stepKeys) = Len(rb.Steps)
    /\ (bk # None /\ bk.useMap) => Len(bk.stepKeys) = Len(bk.rawSteps)

\* C2 (as claimed): in keyed mode the step keys are pairwise distinct after
\* parsing and any AppendStep calls.
C2_StepKeysDistinct ==
    (rb.useMap /\ err = "nil") => Distinct(rb.stepKeys)

\* The last setRunner call found its destination among the entries.
LastHit ==
    /\ last.called
    /\ \E k \in DOMAIN last.before.m : last.before.m[k] = Str(last.dsn)

LastMiss == last.called /\ ~last.panic /\ ~LastHit

Family(dsn) ==
    CASE HasPrefix(dsn, "http") -> "http"
      [] HasPrefix(dsn, "grpc") -> "grpc"
      [] OTHER -> "db"

FamilyCount(Runners, family) ==
    Cardinality({k \in StringKeys(Runners) : Family(Runners.m[k].s) = family})

\* C3 (as claimed): setRunner for a destination no entry holds returns a
\* key that was not a key before, so the mapping and the destination's
\* family grow by exactly one entry and no entry is overwritten.
C3_NewKeyIsFresh ==
    LastMiss =>
        /\ last.key \notin DOMAIN last.before.m
        /\ Cardinality(DOMAIN rb.Runners.m) = Cardinality(DOMAIN last.before.m) + 1
        /\ FamilyCount(rb.Runners, Family(last.dsn))
             = FamilyCount(last.before, Family(last.dsn)) + 1
        /\ \A k \in DOMAIN last.before.m : rb.Runners.m[k] = last.before.m[k]

\* C4: setRunner for a destination an entry holds returns that entry's key
\* and leaves the mapping as it was; so in a runbook made by NewRunbook and
\* AppendStep calls no two entries hold the same destination, and allocating
\* again for a destination present yields the one key that holds it.
C4_ExistingDestinationReused ==
    /\ LastHit =>
          /\ last.key \in DOMAIN last.before.m
          /\ last.before.m[last.key] = Str(last.dsn)
          /\ rb.Runners = last.before
    /\ origin = "new" =>
          /\ \A k1, k2 \in DOMAIN rb.Runners.m :
                rb.Runners.m[k1] = rb.Runners.m[k2] => k1 = k2
          /\ \A k \in DOMAIN rb.Runners.m :
                setRunner(rb.Runners, rb.Runners.m[k].s)
                  = {[key |-> k, Runners |-> rb.Runners, panic |-> FALSE]}

C4_Witness ==
    /\ origin = "new"
    /\ LastHit
    /\ Cardinality(DOMAIN rb.Runners.m) >= 2
    /\ Len(rb.Steps) = 3

\* A curl capture whose destination is http-prefixed.
IsHTTPCurl(in) ==
    /\ Len(in) >= 1
    /\ HasPrefix(in[1], "curl")
    /\ curlreqNewRequest(in).ok
    /\ HasPrefix(curlDSN(curlreqNewRequest(in)), "http")

SameDSN(in1, in2) == curlDSN(curlreqNewRequest(in1)) = curlDSN(curlreqNewRequest(in2))

\* The runner key a synthesized step is filed under.
StepRunnerKey(step) == step.items[1].Key.s

TwoHTTPCurls ==
    /\ origin = "new"
    /\ Len(calls) = 2
    /\ IsHTTPCurl(calls[1])
    /\ IsHTTPCurl(calls[2])

\* Two captures from NewRunbook: the runners' keys and the two steps' keys.
TwoCurlsYield(second) ==
    /\ Len(rb.Steps) = 2
    /\ StepRunnerKey(rb.Steps[1]) = "req"
    /\ IF SameDSN(calls[1], calls[2])
       THEN DOMAIN rb.Runners.m = {"req"} /\ StepRunnerKey(rb.Steps[2]) = "req"
       ELSE DOMAIN rb.Runners.m = {"req", second} /\ StepRunnerKey(rb.Steps[2]) = second

\* C5 (as claimed): two curl captures from NewRunbook share the runner req
\* when scheme and host agree, and otherwise the runners are req and req1,
\* the second step filed under req1.
C5_SecondHostGetsReq1 == TwoHTTPCurls => TwoCurlsYield("req1")

\* C5 (amended): as claimed, but the second destination's key is req2, the
\* prefix followed by the family's count plus one.
C5_SecondHostGetsReq2 == TwoHTTPCurls => TwoCurlsYield("req2")

C5_Witness ==
    /\ TwoHTTPCurls
    /\ ~SameDSN(calls[1], calls[2])
    /\ DOMAIN rb.Runners.m = {"req", "req2"}

----------------------------------------------------------------------------
(* Nested execution: includeRunner.Run.                                     *)
(* An operator holds its runners by reference: httpRunners and dbRunners    *)
(* map a key to a runner instance, and each instance has one operator       *)
(* field, modelled by the function `operator` over the instances.           *)

\* Bounds: include steps per behaviour, steps of a nested runbook.
MaxRuns == 2
MaxChildSteps == 2

\* The runbooks below the root, each with the runners it configures itself
\* (at most one of a kind); a path that is not among them does not load.
Books ==
    "books/child.yml" :> [http |-> {}, db |-> {}]
    @@ "books/runners.yml" :> [http |-> {"req2"}, db |-> {"db2"}]

\* filepath.Join(root, path) for a relative path without dots
filepathJoin(root, path) == root \o "/" \o path

Instances(op) ==
    {op.httpRunners[k] : k \in DOMAIN op.httpRunners}
        \cup {op.dbRunners[k] : k \in DOMAIN op.dbRunners}

\* A function extended or overwritten by another
Merge(f, g) == [k \in DOMAIN f \cup DOMAIN g |-> IF k \in DOMAIN g THEN g[k] ELSE f[k]]

\* New(opts...) for the options newNestedOperator passes: the book at path,
\* the parent's runner instances under their keys, a copy of the parent's
\* variables plus `parent`, the parent's step results. It fails when the book
\* cannot be loaded. The operator built owns the runners it holds: the ones
\* handed in, and new instances (the next free ones) for the runners the book
\* configures. Result: [ok, oo, operator].
New(path, http, db, varsIn, ops) ==
    IF path \notin DOMAIN Books THEN [ok |-> FALSE, err |-> "failed to load runbook"]
    ELSE LET book == Books[path]
             free == (DOMAIN ops \cup {0})
             base == CHOOSE n \in free : \A m \in free : m <= n
             newHTTP == [k \in book.http |-> base + 1]
             newDB == [k \in book.db |-> base + Cardinality(book.http) + 1]
             child == [root |-> "books", included |-> TRUE,
                       store |-> [vars |-> varsIn, steps |-> <<>>],
                       httpRunners |-> Merge(http, newHTTP),
                       dbRunners |-> Merge(db, newDB)]
         IN  [ok |-> TRUE, oo |-> child,
              operator |-> [r \in DOMAIN ops \cup Instances(child) |->
                               IF r \in Instances(child) THEN "oo" ELSE ops[r]]]

\* o.newNestedOperator(Book(path))
newNestedOperator(parent, path, ops) ==
    New(path, parent.httpRunners, parent.dbRunners,
        Merge(parent.store.vars, "parent" :> parent.store.steps), ops)

\* store.toMap(): the variables and the step results of a store
toMap(store) == [vars |-> store.vars, steps |-> store.steps]

\* o.record(v): v becomes the result of the operator's current step
record(op, v) == [op EXCEPT !.store.steps = Append(@, v)]

ParentVars == {<<>>, "x" :> 1, "x" :> 1 @@ "y" :> 2}

ParentHTTP == {<<>>, "req" :> 1}

ParentDB == {<<>>, "db" :> 2}

Configs == [path : {"child.yml", "runners.yml", "missing.yml"},
            vars : {<<>>, "x" :> 9, "x" :> 9 @@ "z" :> 7}]

InitInclude ==
    /\ \E v \in ParentVars, h \in ParentHTTP, d \in ParentDB :
          o = [root |-> "books", included |-> FALSE,
               store |-> [vars |-> v, steps |-> <<>>],
               httpRunners |-> h, dbRunners |-> d]
    /\ oo = None
    /\ operator = [r \in Instances(o) |-> "o"]
    /\ pc = "Idle"
    /\ c = None
    /\ pre = None
    /\ ret = "nil"
    /\ runs = 0
    \* the other components are at rest
    /\ rb = NewRunbook /\ bk = None /\ origin = "new"
    /\ calls = <<>> /\ last = NoCall /\ err = "nil"
    /\ nv = Nil /\ nres = None
    /\ text = None /\ idx = 0 /\ apc = "idle" /\ a = NoAreas
    /\ sec = 0 /\ el = 0 /\ aa = None /\ t = 0 /\ picked = None

\* Run is entered with an includeConfig.
RunEnter ==
    /\ pc = "Idle"
    /\ runs < MaxRuns
    /\ \E cfg \in Configs : c' = cfg
    /\ pre' = [o |-> o, operator |-> operator]
    /\ pc' = "Constructing"
    /\ oo' = None
    /\ ret' = "nil"
    /\ UNCHANGED <<o, operator, runs, rbVars, normVars, areaVars>>

\* oo, err := rnr.operator.newNestedOperator(...); if err != nil { return err }
Construct ==
    /\ pc = "Constructing"
    /\ LET res == newNestedOperator(o, filepathJoin(o.root, c.path), operator)
       IN  IF res.ok
           THEN oo' = res.oo /\ operator' = res.operator
                /\ pc' = "Overriding" /\ ret' = ret
           ELSE oo' = oo /\ operator' = operator
                /\ pc' = "Failed" /\ ret' = res.err
    /\ UNCHANGED <<o, c, pre, runs, rbVars, normVars, areaVars>>

\* The override loop, were it to write to the including operator's store too
OverrideParent ==
    /\ pc = "Overriding"
    /\ oo' = [oo EXCEPT !.store.vars = Merge(@, c.vars)]
    /\ o' = [o EXCEPT !.store.vars = Merge(@, c.vars)]
    /\ pc' = "Running"
    /\ UNCHANGED <<operator, c, pre, ret, runs, rbVars, normVars, areaVars>>

\* for k, v := range c.vars { oo.store.vars[k] = v }
Override ==
    /\ pc = "Overriding"
    /\ oo' = [oo EXCEPT !.store.vars = Merge(@, c.vars)]
    /\ pc' = "Running"
    /\ UNCHANGED <<o, operator, c, pre, ret, runs, rbVars, normVars, areaVars>>

\* oo.Run(ctx): one step of the nested runbook runs and records its result.
ChildStep ==
    /\ pc = "Running"
    /\ Len(oo.store.steps) < MaxChildSteps
    /\ oo' = record(oo, [run |-> TRUE])
    /\ UNCHANGED <<o, operator, pc, c, pre, ret, runs, rbVars, normVars, areaVars>>

\* oo.Run(ctx) returns an error: a step of the nested runbook failed.
ChildFail ==
    /\ pc = "Running"
    /\ Len(oo.store.steps) < MaxChildSteps
    /\ ret' = "step failed"
    /\ pc' = "Failed"
    /\ UNCHANGED <<o, oo, operator, c, pre, runs, rbVars, normVars, areaVars>>

\* oo.Run(ctx) returns nil.
ChildDone ==
    /\ pc = "Running"
    /\ pc' = "Merging"
    /\ UNCHANGED <<o, oo, operator, c, pre, ret, runs, rbVars, normVars, areaVars>>

\* rnr.operator.record(oo.store.toMap()), then every runner the nested
\* operator holds points to the including operator.
MergeBack ==
    /\ pc = "Merging"
    /\ o' = record(o, toMap(oo.store))
    /\ operator' = [r \in DOMAIN operator |->
                       IF r \in Instances(oo) THEN "o" ELSE operator[r]]
    /\ ret' = "nil"
    /\ pc' = "Done"
    /\ UNCHANGED <<oo, c, pre, runs, rbVars, normVars, areaVars>>

\* Run has returned; the including operator goes on to its next step.
RunReturn ==
    /\ pc \in {"Done", "Failed"}
    /\ pc' = "Idle"
    /\ runs' = runs + 1
    /\ UNCHANGED <<o, oo, operator, c, pre, ret, rbVars, normVars, areaVars>>

NextInclude ==
    \/ RunEnter
    \/ Construct
    \/ Override
    \/ ChildStep
    \/ ChildFail
    \/ ChildDone
    \/ MergeBack
    \/ RunReturn

SpecInclude == InitInclude /\ [][NextInclude]_vars

----------------------------------------------------------------------------
(* Properties of nested execution.                                          *)

\* The keys under which op holds exactly the instances held before the call
HoldsAsBefore(now, before) ==
    \A k \in DOMAIN before : k \in DOMAIN now /\ now[k] = before[k]

\* The runners of the nested operator that it did not get from the parent
\* are held by the parent under the same key.
CreatedAreHeld(now, child) ==
    \A k \in DOMAIN child :
        child[k] \notin Instances(pre.o) => (k \in DOMAIN now /\ now[k] = child[k])

\* C6 (as claimed): when Run fails, in construction or in the nested run,
\* it returns the error and the including operator is as it was at the call:
\* its store unchanged, no result recorded, no runner instance pointing to
\* another operator than before.
C6_FailureLeavesParentUntouched ==
    pc = "Failed" =>
        /\ ret \in {"failed to load runbook", "step failed"}
        /\ o = pre.o
        /\ \A r \in DOMAIN pre.operator : operator[r] = pre.operator[r]

\* C7 (as claimed): after a successful Run the including operator holds
\* every runner instance it held before under the same key, and holds every
\* instance created in the nested operator under the key used there.
C7_RunnersAfterSuccess ==
    pc = "Done" =>
        /\ HoldsAsBefore(o.httpRunners, pre.o.httpRunners)
        /\ HoldsAsBefore(o.dbRunners, pre.o.dbRunners)
        /\ CreatedAreHeld(o.httpRunners, oo.httpRunners)
        /\ CreatedAreHeld(o.dbRunners, oo.dbRunners)

\* C8: an override for a name the including operator also has leaves that
\* operator's value as it was when the include completes; the override is
\* in the nested store, which otherwise has the including operator's values.
C8_OverrideLeavesParentValue ==
    /\ pc \in {"Done", "Failed"} =>
          \A k \in DOMAIN c.vars \cap DOMAIN pre.o.store.vars :
              o.store.vars[k] = pre.o.store.vars[k]
    /\ pc \in {"Running", "Merging", "Done"} =>
          /\ \A k \in DOMAIN c.vars : oo.store.vars[k] = c.vars[k]
          /\ \A k \in DOMAIN pre.o.store.vars \ DOMAIN c.vars :
                oo.store.vars[k] = pre.o.store.vars[k]

C8_Witness ==
    /\ pc = "Done"
    /\ "x" \in DOMAIN c.vars \cap DOMAIN o.store.vars
    /\ oo.store.vars["x"] = 9
    /\ o.store.vars["x"] = 1

----------------------------------------------------------------------------
(* The normalizer on its own: normalize applied to one value.               *)

\* Bound: how deep the values handed to normalize nest.
MaxDepth == 2

SignedTags == {"int", "int8", "int16", "int32", "int64"}

UnsignedTags == {"uint", "uint8", "uint16", "uint32", "uint64"}

Leaves ==
    {IntVal(ty, n) : ty \in SignedTags, n \in {-5, 5}}
        \cup {IntVal(ty, 5) : ty \in UnsignedTags}
        \cup {Str("a"), Nil}

\* The containers around one value
Wrap(x) ==
    { Slice(<<x>>),
      MapString("k" :> x),
      MapAny(IntVal("int", 1) :> x),
      MapSlice(<<[Key |-> Str("k"), Value |-> x]>>),
      SliceMap(<<MapString("k" :> x)>>) }

RECURSIVE Values(_)
Values(d) ==
    IF d = 0 THEN Leaves
    ELSE Values(d - 1) \cup UNION {Wrap(x) : x \in Values(d - 1)}

InitNormalize ==
    /\ nv \in Values(MaxDepth)
    /\ nres = None
    \* the other components are at rest
    /\ rb = NewRunbook /\ bk = None /\ origin = "new"
    /\ calls = <<>> /\ last = NoCall /\ err = "nil"
    /\ o = None /\ oo = None /\ operator = <<>> /\ pc = "Idle"
    /\ c = None /\ pre = None /\ ret = "nil" /\ runs = 0
    /\ text = None /\ idx = 0 /\ apc = "idle" /\ a = NoAreas
    /\ sec = 0 /\ el = 0 /\ aa = None /\ t = 0 /\ picked = None

Normalize ==
    /\ nres = None
    /\ nres' = normalize(nv)
    /\ UNCHANGED <<nv, rbVars, incVars, areaVars>>

NextNormalize == Normalize

SpecNormalize == InitNormalize /\ [][NextNormalize]_vars

\* Every integer of a normalized value is a signed 64-bit one when negative
\* and an unsigned 64-bit one otherwise.
RECURSIVE SignAware(_)
SignAware(v) ==
    CASE IsIntTag(v.tag) -> v.tag = (IF v.n < 0 THEN "int64" ELSE "uint64")
      [] v.tag \in {"[]any", "[]map[string]any"} ->
            \A i \in 1..Len(v.elems) : SignAware(v.elems[i])
      [] v.tag \in {"map[string]any", "map[any]any"} ->
            \A k \in DOMAIN v.m : SignAware(v.m[k])
      [] v.tag = "yaml.MapSlice" ->
            \A i \in 1..Len(v.items) : SignAware(v.items[i].Value)
      [] OTHER -> TRUE

\* C9 (as claimed): normalize returns every integer, of any native integer
\* type and at any depth, as int64 when negative and as uint64 otherwise.
C9_SignAwareForEveryIntegerType ==
    nres # None => SignAware(nres)

----------------------------------------------------------------------------
(* The source-position mapper.                                              *)
(* A document is given as the lexer and parser present it: its tokens in    *)
(* order (a token's Prev is the one before it, nil before the first), and   *)
(* the top-level mapping's entries. A node is [tok, toks]: the token        *)
(* GetToken returns and the tokens of the nodes ast.Walk visits under it.   *)

\* Bound: the step indexes asked of pickStepYAML are 0..MaxIdx.
MaxIdx == 2

Tok(value, line) == [Value |-> value, Line |-> line]

Node(tok, toks) == [tok |-> tok, toks |-> toks]

NoSteps == [kind |-> "none", values |-> <<>>]

Section(key, node, steps) == [key |-> key, node |-> node, steps |-> steps]

\* desc: d
\* steps:
\*   - db:
\*       query: q
\*   - exec:
\*       command: c
BlockDoc ==
    [parseErr |-> FALSE, bodyMapping |-> TRUE, nlines |-> 7,
     tokens |-> <<Tok("desc", 1), Tok(":", 1), Tok("d", 1),
                  Tok("steps", 2), Tok(":", 2),
                  Tok("-", 3), Tok("db", 3), Tok(":", 3),
                  Tok("query", 4), Tok(":", 4), Tok("q", 4),
                  Tok("-", 5), Tok("exec", 5), Tok(":", 5),
                  Tok("command", 6), Tok(":", 6), Tok("c", 6)>>,
     sections |-> <<Section(Str("desc"), Node(2, 1..3), NoSteps),
                    Section(Str("steps"), Node(5, 4..17),
                            [kind |-> "seq",
                             values |-> <<Node(8, 7..11), Node(14, 13..17)>>])>>]

\* steps: [{db: {query: "SELECT 1"}}]
FlowDoc ==
    [parseErr |-> FALSE, bodyMapping |-> TRUE, nlines |-> 2,
     tokens |-> <<Tok("steps", 1), Tok(":", 1), Tok("[", 1), Tok("{", 1),
                  Tok("db", 1), Tok(":", 1), Tok("{", 1), Tok("query", 1),
                  Tok(":", 1), Tok("SELECT 1", 1), Tok("}", 1), Tok("}", 1),
                  Tok("]", 1)>>,
     sections |-> <<Section(Str("steps"), Node(2, 1..10),
                            [kind |-> "seq", values |-> <<Node(4, 4..10)>>])>>]

\* vars:
\*   list:
\*     - v
\* steps: [{db: {query: q}}, {exec: {command: c}}]
FlowAfterListDoc ==
    [parseErr |-> FALSE, bodyMapping |-> TRUE, nlines |-> 5,
     tokens |-> <<Tok("vars", 1), Tok(":", 1), Tok("list", 2), Tok(":", 2),
                  Tok("-", 3), Tok("v", 3),
                  Tok("steps", 4), Tok(":", 4), Tok("[", 4), Tok("{", 4),
                  Tok("db", 4), Tok(":", 4), Tok("{", 4), Tok("query", 4),
                  Tok(":", 4), Tok("q", 4), Tok("}", 4), Tok("}", 4),
                  Tok(",", 4), Tok("{", 4), Tok("exec", 4), Tok(":", 4),
                  Tok("{", 4), Tok("command", 4), Tok(":", 4), Tok("c", 4),
                  Tok("}", 4), Tok("}", 4), Tok("]", 4)>>,
     sections |-> <<Section(Str("vars"), Node(2, 1..6), NoSteps),
                    Section(Str("steps"), Node(8, 7..26),
                            [kind |-> "seq",
                             values |-> <<Node(10, 10..16), Node(20, 20..26)>>])>>]

\* steps:
\*   - exec:
\*       command: |
\*         a
\*         b
\*   - exec:
\*       command: c
BlockScalarDoc ==
    [parseErr |-> FALSE, bodyMapping |-> TRUE, nlines |-> 8,
     tokens |-> <<Tok("steps", 1), Tok(":", 1),
                  Tok("-", 2), Tok("exec", 2), Tok(":", 2),
                  Tok("command", 3), Tok(":", 3), Tok("|", 3), Tok("a\nb\n", 4),
                  Tok("-", 6), Tok("exec", 6), Tok(":", 6),
                  Tok("command", 7), Tok(":", 7), Tok("c", 7)>>,
     sections |-> <<Section(Str("steps"), Node(2, 1..15),
                            [kind |-> "seq",
                             values |-> <<Node(5, 4..9), Node(12, 11..15)>>])>>]

\* runners:
\*   req: http://example.com
\* steps:
\*   first:
\*     exec:
\*       command: c
\*   second:
\*     exec:
\*       command: c
KeyedDoc ==
    [parseErr |-> FALSE, bodyMapping |-> TRUE, nlines |-> 10,
     tokens |-> <<Tok("runners", 1), Tok(":", 1), Tok("req", 2), Tok(":", 2),
                  Tok("http://example.com", 2),
                  Tok("steps", 3), Tok(":", 3),
                  Tok("first", 4), Tok(":", 4), Tok("exec", 5), Tok(":", 5),
                  Tok("command", 6), Tok(":", 6), Tok("c", 6),
                  Tok("second", 7), Tok(":", 7), Tok("exec", 8), Tok(":", 8),
                  Tok("command", 9), Tok(":", 9), Tok("c", 9)>>,
     sections |-> <<Section(Str("runners"), Node(2, 1..5), NoSteps),
                    Section(Str("steps"), Node(7, 6..21),
                            [kind |-> "map",
                             values |-> <<Node(9, 8..14), Node(16, 15..21)>>])>>]

\* 1: x
\* steps:
\*   - exec:
\*       command: c
IntKeyDoc ==
    [parseErr |-> FALSE, bodyMapping |-> TRUE, nlines |-> 5,
     tokens |-> <<Tok("1", 1), Tok(":", 1), Tok("x", 1),
                  Tok("steps", 2), Tok(":", 2),
                  Tok("-", 3), Tok("exec", 3), Tok(":", 3),
                  Tok("command", 4), Tok(":", 4), Tok("c", 4)>>,
     sections |-> <<Section(IntVal("int", 1), Node(2, 1..3), NoSteps),
                    Section(Str("steps"), Node(5, 4..11),
                            [kind |-> "seq", values |-> <<Node(8, 7..11)>>])>>]

\* - a
SequenceDoc ==
    [parseErr |-> FALSE, bodyMapping |-> FALSE, nlines |-> 2,
     tokens |-> <<Tok("-", 1), Tok("a", 1)>>, sections |-> <<>>]

\* steps: [
UnparsableDoc ==
    [parseErr |-> TRUE, bodyMapping |-> FALSE, nlines |-> 2,
     tokens |-> <<Tok("steps", 1), Tok(":", 1), Tok("[", 1)>>, sections |-> <<>>]

AreaDocs == {BlockDoc, FlowDoc, FlowAfterListDoc, BlockScalarDoc, KeyedDoc,
             IntKeyDoc, SequenceDoc, UnparsableDoc}

\* strings.Count(s, "\n")
RECURSIVE CountNewlines(_)
CountNewlines(s) ==
    IF Len(s) = 0 THEN 0
    ELSE (IF SubSeq(s, 1, 1) = "\n" THEN 1 ELSE 0) + CountNewlines(From(s, 2))

Min(S) == CHOOSE x \in S : \A y \in S : x <= y

Max(S) == CHOOSE x \in S : \A y \in S : y <= x

\* detectAreaFromNode: from the lexically first to the last token visited,
\* the end moved down over a multi-line scalar that another token follows.
detectAreaFromNode(doc, node) ==
    LET start == Min(node.toks)
        end == Max(node.toks)
        more == CountNewlines(doc.tokens[end].Value) - 1
    IN  [Start |-> doc.tokens[start].Line,
         End |-> doc.tokens[end].Line
                   + (IF more > 0 /\ end < Len(doc.tokens) THEN more ELSE 0)]

InitAreas ==
    /\ text \in AreaDocs
    /\ idx \in 0..MaxIdx
    /\ apc = "call"
    /\ a = NoAreas
    /\ sec = 0
    /\ el = 0
    /\ aa = None
    /\ t = 0
    /\ picked = None
    \* the other components are at rest
    /\ rb = NewRunbook /\ bk = None /\ origin = "new"
    /\ calls = <<>> /\ last = NoCall /\ err = "nil"
    /\ o = None /\ oo = None /\ operator = <<>> /\ pc = "Idle"
    /\ c = None /\ pre = None /\ ret = "nil" /\ runs = 0
    /\ nv = Nil /\ nres = None

\* pickStepYAML calls detectRunbookAreas: the text is lexed and parsed, and
\* a parse error or a body that is no mapping returns the empty areas.
Detect ==
    /\ apc = "call"
    /\ IF text.parseErr \/ ~text.bodyMapping
       THEN apc' = "returned" /\ sec' = sec
       ELSE apc' = "sections" /\ sec' = 1
    /\ UNCHANGED <<text, idx, a, el, aa, t, picked, rbVars, incVars, normVars>>

\* One turn of the loop over the sections.
SectionLoop ==
    /\ apc = "sections"
    /\ IF sec > Len(text.sections)
       THEN apc' = "returned" /\ UNCHANGED <<a, sec, el>>
       ELSE LET s == text.sections[sec]
            IN  IF s.key.tag # "string"
                THEN apc' = "returned" /\ UNCHANGED <<a, sec, el>>
                ELSE CASE s.key.s = "desc" ->
                            /\ a' = [a EXCEPT !.Desc = detectAreaFromNode(text, s.node)]
                            /\ sec' = sec + 1 /\ UNCHANGED <<apc, el>>
                       [] s.key.s = "vars" ->
                            /\ a' = [a EXCEPT !.Vars = detectAreaFromNode(text, s.node)]
                            /\ sec' = sec + 1 /\ UNCHANGED <<apc, el>>
                       [] s.key.s = "runners" ->
                            /\ a' = [a EXCEPT !.Runners = detectAreaFromNode(text, s.node)]
                            /\ sec' = sec + 1 /\ UNCHANGED <<apc, el>>
                       [] s.key.s = "steps" /\ s.steps.kind = "map" ->
                            /\ a' = [a EXCEPT !.Steps = @ \o
                                       [i \in 1..Len(s.steps.values) |->
                                          detectAreaFromNode(text, s.steps.values[i])]]
                            /\ sec' = sec + 1 /\ UNCHANGED <<apc, el>>
                       [] s.key.s = "steps" /\ s.steps.kind = "seq" ->
                            /\ apc' = "elements" /\ el' = 1 /\ UNCHANGED <<a, sec>>
                       [] OTHER -> sec' = sec + 1 /\ UNCHANGED <<apc, a, el>>
    /\ UNCHANGED <<text, idx, aa, t, picked, rbVars, incVars, normVars>>

\* One turn of the loop over the elements of a steps sequence, up to the
\* backward scan: aa := detectAreaFromNode(v); t := v.GetToken().
ElementLoop ==
    /\ apc = "elements"
    /\ LET values == text.sections[sec].steps.values
       IN  IF el > Len(values)
           THEN apc' = "sections" /\ sec' = sec + 1 /\ UNCHANGED <<aa, t>>
           ELSE /\ aa' = detectAreaFromNode(text, values[el])
                /\ t' = values[el].tok
                /\ apc' = "scan" /\ sec' = sec
    /\ UNCHANGED <<text, idx, a, el, picked, rbVars, incVars, normVars>>

\* One turn of the scan for the `-` token: reading t.Value of a nil t is a
\* nil dereference, which panics.
ScanBack ==
    /\ apc = "scan"
    /\ IF t = 0
       THEN apc' = "panic" /\ UNCHANGED <<a, el, aa, t>>
       ELSE IF text.tokens[t].Value = "-"
       THEN /\ a' = [a EXCEPT !.Steps = Append(@, [aa EXCEPT !.Start = text.tokens[t].Line])]
            /\ el' = el + 1 /\ apc' = "elements" /\ t' = t /\ aa' = aa
       ELSE t' = t - 1 /\ UNCHANGED <<apc, a, el, aa>>
    /\ UNCHANGED <<text, idx, sec, picked, rbVars, incVars, normVars>>

\* pickStepYAML after detectRunbookAreas returned: the range checks, and the
\* lines start..end picked.
Pick ==
    /\ apc = "returned"
    /\ picked' = IF Len(a.Steps) - 1 < idx
                 THEN [err |-> "step not found", n |-> idx]
                 ELSE IF text.nlines < a.Steps[idx + 1].End
                 THEN [err |-> "line not found", n |-> a.Steps[idx + 1].End]
                 ELSE [err |-> "nil", lines |-> a.Steps[idx + 1].Start .. a.Steps[idx + 1].End]
    /\ apc' = "done"
    /\ UNCHANGED <<text, idx, a, sec, el, aa, t, rbVars, incVars, normVars>>

NextAreas == Detect \/ SectionLoop \/ ElementLoop \/ ScanBack \/ Pick

SpecAreas == InitAreas /\ [][NextAreas]_vars

\* C10 (as claimed): detectRunbookAreas never aborts its caller; it returns
\* one area per element of a steps sequence, also when no `-` token precedes
\* an element, so that for the flow-style document with one step
\* pickStepYAML with index 1 fails with step not found.
C10_NeverAborts ==
    /\ apc # "panic"
    /\ (apc = "done" /\ text = FlowDoc) =>
          /\ Len(a.Steps) = 1
          /\ idx = 1 => picked = [err |-> "step not found", n |-> 1]

====
